---- MODULE Spec2Model ----
(***************************************************************************)
(* Model of the LinkedIn posting agent: the approval channel               *)
(* (src/src/telegram_bot.py), the processed store (src/src/database.py),   *)
(* the source aggregator (src/src/article_fetcher.py) and the run loop     *)
(* (src/main.py).                                                          *)
(***************************************************************************)
EXTENDS Integers, Sequences, FiniteSets, TLC

(***************************************************************************)
(* Bounds of the model.                                                    *)
(***************************************************************************)
\* Approval requests issued (calls of send_article_for_approval_async).
MaxReq == 2
\* Largest reading of the clock in seconds (time.time()).
MaxTime == 3
\* Largest reading of the nanosecond clock (time.time_ns()).
MaxNs == 2
\* The most articles one provider returns (config.py: *_max_articles).
MaxFetch == 2
\* The number of runs of main() that are followed.
MaxRuns == 2
\* The largest config.max_retries that is followed.
MaxRetries == 3
\* MAX_RETRIES's default (config.py:61).
max_retries_default == 3
\* Seconds a request waits for an answer.  The code sets 3600
\* (telegram_bot.py:33); the model counts the same loop in coarser ticks.
user_interaction_timeout == 2

(***************************************************************************)
(* Values.                                                                 *)
(***************************************************************************)
\* Python's None.
None == "None"
\* The two urls ("items") of the model.
Urls == {"urlA", "urlB"}
\* Actions a button payload can carry: the two the keyboard offers
\* (telegram_bot.py:140-141) and one that is neither.
Actions == {"post", "ignore", "edit"}
\* The calls of send_article_for_approval_async that are followed.
Req == 1..MaxReq

VARIABLES
    USER_RESPONSES,   \* telegram_bot.py:16, the live table: article_id -> action or None
    requests,         \* the calls of send_article_for_approval_async, by call number
    recorded,         \* history: per call, the first and the last action the listener
                      \* wrote to the call's entry while the call was in flight
    notice,           \* the listener's last reply to the operator (edit_message_text)
    now,              \* time.time(), in ticks
    time_ns,          \* time.time_ns()
    default_chat_id,  \* TelegramNotifier.default_chat_id is set (telegram_bot.py:23)
    conn,             \* Database.conn is a connection (TRUE) or None (FALSE)
    processed_articles, \* the table of database.py:31-35: url -> its row
    last_call,        \* the last call on the Database and what it returned
    orchestrator,     \* where Orchestrator.run is
    main_pc,          \* where main() is (main.py:46-113)
    run,              \* the number of the current run of main()
    articles,         \* main.py:51, the list fetch_all_articles returned (urls)
    idx,              \* position in articles of the article the loop of main.py:59 is at
    calls,            \* history: per url, the calls this run made for it
    outcome,          \* history: per url, how this run disposed of it
    decided_before,   \* history: the urls earlier runs disposed of
    held_at_fetch,    \* history: the fetched urls the store held when they were fetched
    dup_fetched,      \* history: the urls the providers returned more than once
    messages,         \* history: what main() asked notifier.send_message to send
    fetch_log,        \* history: per provider called, how its fetch went
    max_retries,      \* config.max_retries (config.py:61)
    req_call,         \* the running call of ArticleFetcher._make_request
    llm_call,         \* the running call of LLMHandler.summarize_article
    driver,           \* LinkedInPoster.driver is a webdriver (TRUE) or None (FALSE)
    poster_log,       \* history: per call of LinkedInPoster.post_article, what it did
    updater_running   \* application.updater.running: the polling thread polls

chanVars == <<USER_RESPONSES, requests, recorded, notice, time_ns, default_chat_id>>
dbVars == <<conn, processed_articles, last_call, orchestrator>>
mainVars == <<main_pc, run, articles, idx, calls, outcome, decided_before,
              held_at_fetch, dup_fetched, messages>>
retryVars == <<max_retries, req_call, llm_call>>
sessionVars == <<driver, poster_log, updater_running>>
libVars == <<fetch_log, max_retries, req_call, llm_call, driver, poster_log, updater_running>>
vars == <<USER_RESPONSES, requests, recorded, notice, now, time_ns, default_chat_id,
          conn, processed_articles, last_call, orchestrator,
          main_pc, run, articles, idx, calls, outcome, decided_before,
          held_at_fetch, dup_fetched, messages,
          fetch_log, max_retries, req_call, llm_call,
          driver, poster_log, updater_running>>

(***************************************************************************)
(* Python dict operations on USER_RESPONSES.                               *)
(***************************************************************************)
DictSet(d, k, v) == [x \in (DOMAIN d) \cup {k} |-> IF x = k THEN v ELSE d[x]]
DictDel(d, k) == [x \in (DOMAIN d) \ {k} |-> d[x]]
DictGet(d, k) == IF k \in DOMAIN d THEN d[k] ELSE None

\* A call not yet made.  start and wake are the locals start_time and the end
\* of the current asyncio.sleep(1); they are cleared when the call returns.
IdleRequest == [pc |-> "idle", article |-> None, id |-> -1, start |-> 0,
                wake |-> 0, result |-> None]

(***************************************************************************)
(* Button payloads.  A payload is the text f"{action}:{article_id}"        *)
(* (telegram_bot.py:140-141), modelled as its sequence of tokens with ":"  *)
(* the separator; article_id "article_<ns>" is the token ns.               *)
(***************************************************************************)
callback_data(action, article_id) == <<action, ":", article_id>>

\* Index of the first ":" of a payload, 0 when it has none.
FirstColon(data) ==
    IF \E i \in 1..Len(data) : data[i] = ":"
    THEN CHOOSE i \in 1..Len(data) : data[i] = ":" /\ \A j \in 1..(i-1) : data[j] # ":"
    ELSE 0

\* callback_data.split(":", 1): <<text before the first ":", text after it>>;
\* a payload with no ":" gives one part and the unpacking raises ValueError.
SplitOnce(data) ==
    IF FirstColon(data) = 0 THEN <<data>>
    ELSE <<SubSeq(data, 1, FirstColon(data) - 1),
           SubSeq(data, FirstColon(data) + 1, Len(data))>>

\* The action a piece of text names; text of several tokens is no action of
\* the keyboard.
ActionOf(part) == IF Len(part) = 1 THEN part[1] ELSE "other"

\* The article id a piece of text is; text of several tokens is no article id
\* (-1 is the key of no entry).
KeyOf(part) == IF Len(part) = 1 THEN part[1] ELSE -1

Pending(r) == requests[r].pc \in {"sending", "sleeping"}

\* The article ids on the buttons the operator has in the chat: those of the
\* prompts whose send has ended (lines 147-153), and MaxNs, an id this run
\* never mints, for a prompt left over from an earlier run.
Prompts ==
    {MaxNs} \cup {requests[r].id : r \in {q \in Req : requests[q].pc \in {"sleeping", "returned"}
                                                    /\ requests[q].id >= 0}}

\* Payloads the operator's client can send: any action with the id of a prompt
\* in the chat, a payload with no separator, and one with a second separator.
Payloads ==
    {callback_data(a, i) : a \in Actions, i \in Prompts}
        \cup {<<"post">>, <<"post", ":", 0, ":", 0>>}

\* The history after the listener has written action under unique_id.
Record(unique_id, action) ==
    [r \in Req |->
        IF Pending(r) /\ requests[r].id = unique_id
        THEN [first |-> IF recorded[r].first = None THEN action ELSE recorded[r].first,
              last |-> action]
        ELSE recorded[r]]

\* The text the listener edits the prompt to (lines 68-73).
Acknowledgement(action) ==
    CASE action = "post" -> "approved"
      [] action = "ignore" -> "ignored"
      [] OTHER -> "recorded"

\* _button_callback writing the action into every entry of the table.
_button_callback_broadcast(data) ==
    LET parts == SplitOnce(data) IN
    IF Len(parts) < 2
    THEN /\ notice' = "invalid"
         /\ UNCHANGED <<USER_RESPONSES, recorded>>
    ELSE LET action    == ActionOf(parts[1])
             unique_id == KeyOf(parts[2])
         IN IF unique_id \in DOMAIN USER_RESPONSES
            THEN /\ USER_RESPONSES' = [k \in DOMAIN USER_RESPONSES |-> action]
                 /\ recorded' = Record(unique_id, action)
                 /\ notice' = Acknowledgement(action)
            ELSE /\ notice' = "expired"
                 /\ UNCHANGED <<USER_RESPONSES, recorded>>

\* _button_callback without the membership test of line 65.
_button_callback_unchecked(data) ==
    LET parts == SplitOnce(data) IN
    IF Len(parts) < 2
    THEN /\ notice' = "invalid"
         /\ UNCHANGED <<USER_RESPONSES, recorded>>
    ELSE LET action    == ActionOf(parts[1])
             unique_id == KeyOf(parts[2])
         IN /\ USER_RESPONSES' = DictSet(USER_RESPONSES, unique_id, action)
            /\ recorded' = Record(unique_id, action)
            /\ notice' = Acknowledgement(action)

(***************************************************************************)
(* TelegramNotifier._button_callback (telegram_bot.py:48-78).              *)
(***************************************************************************)
_button_callback(data) ==
    LET parts == SplitOnce(data) IN
    IF Len(parts) < 2
    THEN \* ValueError: lines 59-63
         /\ notice' = "invalid"
         /\ UNCHANGED <<USER_RESPONSES, recorded>>
    ELSE LET action    == ActionOf(parts[1])
             unique_id == KeyOf(parts[2])
         IN IF unique_id \in DOMAIN USER_RESPONSES
            THEN /\ USER_RESPONSES' = DictSet(USER_RESPONSES, unique_id, action)
                 /\ recorded' = Record(unique_id, action)
                 /\ notice' = Acknowledgement(action)
            ELSE /\ notice' = "expired"
                 /\ UNCHANGED <<USER_RESPONSES, recorded>>

\* The listener handles one inbound callback query.
Inbound(data) ==
    /\ _button_callback(data)
    /\ UNCHANGED <<requests, now, time_ns, default_chat_id>>
    /\ UNCHANGED dbVars
    /\ UNCHANGED libVars
    /\ UNCHANGED mainVars

ButtonCallback == \E data \in Payloads : Inbound(data)

(***************************************************************************)
(* TelegramNotifier.send_article_for_approval_async                        *)
(* (telegram_bot.py:113-177), one action per stretch between awaits.       *)
(***************************************************************************)
\* Lines 118-145: the chat id check, the id minted from the clock, the entry.
send_article_for_approval_async(r, article) ==
    /\ requests[r].pc = "idle"
    /\ IF ~default_chat_id
       THEN /\ requests' = [requests EXCEPT ![r].pc = "returned",
                                            ![r].article = article,
                                            ![r].result = "error_no_chat_id"]
            /\ UNCHANGED USER_RESPONSES
       ELSE /\ time_ns < MaxNs
            /\ requests' = [requests EXCEPT ![r].pc = "sending",
                                            ![r].article = article,
                                            ![r].id = time_ns]
            /\ USER_RESPONSES' = DictSet(USER_RESPONSES, time_ns, None)
    /\ UNCHANGED <<recorded, notice, now, time_ns, default_chat_id>>

\* The first pass of the wait loop and every later one (lines 162-167): the
\* entry is read, and popped when it holds an answer.
PollOrSleep(r, start) ==
    IF DictGet(USER_RESPONSES, requests[r].id) # None
    THEN /\ requests' = [requests EXCEPT ![r].pc = "returned", ![r].start = 0,
                            ![r].wake = 0,
                            ![r].result = USER_RESPONSES[requests[r].id]]
         /\ USER_RESPONSES' = DictDel(USER_RESPONSES, requests[r].id)
    ELSE /\ requests' = [requests EXCEPT ![r].pc = "sleeping", ![r].start = start,
                                         ![r].wake = now + 1]
         /\ UNCHANGED USER_RESPONSES

\* The timeout path without the clean-up of line 171.
TimeoutReturnNoCleanup(r) ==
    /\ requests' = [requests EXCEPT ![r].pc = "returned", ![r].start = 0,
                                     ![r].wake = 0, ![r].result = "timeout"]
    /\ UNCHANGED USER_RESPONSES

\* Lines 169-177: the deadline has passed.
TimeoutReturn(r) ==
    /\ requests' = [requests EXCEPT ![r].pc = "returned", ![r].start = 0,
                                     ![r].wake = 0, ![r].result = "timeout"]
    /\ USER_RESPONSES' = IF requests[r].id \in DOMAIN USER_RESPONSES
                         THEN DictDel(USER_RESPONSES, requests[r].id)
                         ELSE USER_RESPONSES

\* Lines 146-167: bot.send_message returns or raises; on success start_time is
\* read and the loop makes its first pass.  The send takes real time, so the
\* nanosecond clock has moved on when it ends.
bot_send_message(r, sent) ==
    /\ requests[r].pc = "sending"
    /\ IF sent
       THEN IF now - now < user_interaction_timeout
            THEN PollOrSleep(r, now)
            ELSE TimeoutReturn(r)
       ELSE /\ requests' = [requests EXCEPT ![r].pc = "returned",
                                            ![r].result = "error_sending_message"]
            /\ USER_RESPONSES' = IF requests[r].id \in DOMAIN USER_RESPONSES
                                 THEN DictDel(USER_RESPONSES, requests[r].id)
                                 ELSE USER_RESPONSES
    /\ time_ns' = IF time_ns < MaxNs THEN time_ns + 1 ELSE time_ns
    /\ UNCHANGED <<recorded, notice, now, default_chat_id>>

\* The wait loop as while True: it polls and sleeps, and has no deadline.
wait_loop_no_deadline(r) ==
    /\ requests[r].pc = "sleeping"
    /\ now >= requests[r].wake
    /\ PollOrSleep(r, requests[r].start)
    /\ UNCHANGED <<recorded, notice, now, time_ns, default_chat_id>>

\* Lines 162-177 after asyncio.sleep(1) has returned: at least one second later.
wait_loop(r) ==
    /\ requests[r].pc = "sleeping"
    /\ now >= requests[r].wake
    /\ IF now - requests[r].start < user_interaction_timeout
       THEN PollOrSleep(r, requests[r].start)
       ELSE TimeoutReturn(r)
    /\ UNCHANGED <<recorded, notice, now, time_ns, default_chat_id>>

(***************************************************************************)
(* The clocks.                                                             *)
(***************************************************************************)
\* A second passes.  Only a waiting call reads the clock (lines 161-162), so
\* time that passes while none waits is left out.
Tick ==
    /\ now < MaxTime
    /\ \E r \in Req : requests[r].pc = "sleeping"
    /\ now' = now + 1
    /\ UNCHANGED chanVars
    /\ UNCHANGED dbVars
    /\ UNCHANGED libVars
    /\ UNCHANGED mainVars

\* The reading of time.time_ns() has changed since it was last read.  Two
\* reads with no such step between them return the same value.
NsAdvance ==
    /\ time_ns < MaxNs
    /\ time_ns' = time_ns + 1
    /\ UNCHANGED <<USER_RESPONSES, requests, recorded, notice, now, default_chat_id>>
    /\ UNCHANGED dbVars
    /\ UNCHANGED libVars
    /\ UNCHANGED mainVars

(***************************************************************************)
(* The approval channel on its own: any number of calls in flight at once. *)
(***************************************************************************)
\* What one run has done for one url: the calls it made and the response its
\* approval request returned.
NoCalls == [summarize |-> 0, approval |-> 0, post |-> 0, response |-> None]

\* No _make_request and no summarize_article call is running.
NoRequest == [pc |-> "idle", attempt |-> 0, result |-> None, log |-> << >>]
NoSummary == [pc |-> "idle", attempt |-> 0, result |-> None, log |-> << >>, text |-> None]

\* The fetcher, the summarizer and the publisher have not been called, no
\* polling has been started; the configuration has its default.
LibUnused ==
    /\ fetch_log = << >>
    /\ max_retries = max_retries_default
    /\ req_call = NoRequest
    /\ llm_call = NoSummary
    /\ driver = FALSE
    /\ poster_log = << >>
    /\ updater_running = FALSE

\* main() has not been started.
MainUnused ==
    /\ main_pc = "idle"
    /\ run = 0
    /\ articles = << >>
    /\ idx = 0
    /\ calls = [url \in Urls |-> NoCalls]
    /\ outcome = << >>
    /\ decided_before = {}
    /\ held_at_fetch = {}
    /\ dup_fetched = {}
    /\ messages = {}

\* No Database has been constructed: the file holds no row.
DbUnused ==
    /\ conn = FALSE
    /\ processed_articles = << >>
    /\ last_call = [op |-> None, url |-> None, fault |-> None, ret |-> None]
    /\ orchestrator = "idle"

ChanInit ==
    /\ DbUnused
    /\ MainUnused
    /\ LibUnused
    /\ USER_RESPONSES = << >>
    /\ requests = [r \in Req |-> IdleRequest]
    /\ recorded = [r \in Req |-> [first |-> None, last |-> None]]
    /\ notice = None
    /\ now = 0
    /\ time_ns = 0
    /\ default_chat_id \in BOOLEAN

\* Call r asks about item r's url.
ItemOf(r) == IF r = 1 THEN "urlA" ELSE "urlB"

CallApproval ==
    /\ \E r \in Req : send_article_for_approval_async(r, ItemOf(r))
    /\ UNCHANGED dbVars
    /\ UNCHANGED libVars
    /\ UNCHANGED mainVars
SendReturns ==
    /\ \E r \in Req : bot_send_message(r, TRUE)
    /\ UNCHANGED dbVars
    /\ UNCHANGED libVars
    /\ UNCHANGED mainVars
SendRaises ==
    /\ \E r \in Req : bot_send_message(r, FALSE)
    /\ UNCHANGED dbVars
    /\ UNCHANGED libVars
    /\ UNCHANGED mainVars
WaitLoop ==
    /\ \E r \in Req : wait_loop(r)
    /\ UNCHANGED dbVars
    /\ UNCHANGED libVars
    /\ UNCHANGED mainVars

ChanNext ==
    \/ CallApproval
    \/ SendReturns
    \/ SendRaises
    \/ WaitLoop
    \/ ButtonCallback
    \/ Tick
    \/ NsAdvance

SpecChannel == ChanInit /\ [][ChanNext]_vars

(***************************************************************************)
(* Properties of the approval channel.                                     *)
(***************************************************************************)
Returned(r) == requests[r].pc = "returned"
SendErrors == {"error_no_chat_id", "error_sending_message"}

\* C3: a call that returns an action returns the action of the latest payload
\* that carried the call's own correlation id; a payload carrying another id
\* never decides it.
C3_CorrelationIsolation ==
    \A r \in Req :
        (Returned(r) /\ requests[r].result \notin SendErrors \cup {"timeout"})
            => requests[r].result = recorded[r].last

\* Two calls in flight together (call 2 registered after call 1, call 1 not yet
\* returned), the second answered and returned first with "ignore" while the
\* entry of the first holds its own "post".
C3_Witness ==
    /\ requests[1].pc = "sleeping"
    /\ Returned(2)
    /\ requests[2].id > requests[1].id
    /\ requests[2].result = "ignore"
    /\ DictGet(USER_RESPONSES, requests[1].id) = "post"

\* C4: a call for which the listener recorded an approve or a reject while it
\* was waiting never returns timeout.
C4_AnswerBeatsTimeout ==
    \A r \in Req :
        (Returned(r) /\ requests[r].result = "timeout")
            => recorded[r].first \notin {"post", "ignore"}

\* C5: the action a call returns is the first one the listener recorded for
\* its correlation id; a second press does not change it.
C5_FirstAnswerStands ==
    \A r \in Req :
        (Returned(r) /\ requests[r].result \notin SendErrors \cup {"timeout"})
            => requests[r].result = recorded[r].first

\* A payload that splits in two and whose id is no key of the live table.
UnknownId(data) ==
    /\ Len(SplitOnce(data)) = 2
    /\ KeyOf(SplitOnce(data)[2]) \notin DOMAIN USER_RESPONSES

\* C6: a callback whose correlation id is not in the live table changes neither
\* the table nor any call, adds no entry, and is answered "expired or unknown".
C6_UnknownIdDiscarded ==
    [][(USER_RESPONSES' # USER_RESPONSES \/ recorded' # recorded \/ notice' # "expired")
          => \A data \in Payloads : ~(UnknownId(data) /\ Inbound(data))]_vars

\* A call is waiting, another has returned, and the listener has just answered
\* "expired" to a payload: the returned call's id and the never issued one are
\* no keys, the waiting call's entry is untouched.
C6_Witness ==
    /\ notice = "expired"
    /\ \E r \in Req : /\ requests[r].pc = "sleeping"
                      /\ requests[r].id \in DOMAIN USER_RESPONSES
                      /\ USER_RESPONSES[requests[r].id] = None
    /\ \E r \in Req : Returned(r) /\ requests[r].result = "timeout"

\* C7: a call whose deadline passed with no inbound event for its id returns
\* timeout, and from then on its id is no key of the live table.
C7_TimeoutCleansUp ==
    \A r \in Req :
        /\ (Returned(r) /\ recorded[r].first = None /\ requests[r].result \notin SendErrors)
              => requests[r].result = "timeout"
        /\ (Returned(r) /\ requests[r].result = "timeout")
              => requests[r].id \notin DOMAIN USER_RESPONSES

\* A call has timed out with no event recorded for it.
C7_Witness ==
    \E r \in Req :
        /\ Returned(r)
        /\ requests[r].result = "timeout"
        /\ recorded[r].first = None

\* The outcomes the specification gives an approval request.
ApprovalOutcomes == {"post", "ignore", "timeout"}

\* C21: a call whose prompt was sent returns "post", "ignore" or "timeout",
\* whatever payloads the operator's client sent while it waited.
C21_ThreeOutcomes ==
    \A r \in Req :
        (Returned(r) /\ requests[r].result \notin SendErrors)
            => requests[r].result \in ApprovalOutcomes

\* C28: two calls that are in flight together are registered under different
\* correlation ids.
C28_CorrelationIdsUnique ==
    \A r, q \in Req :
        (r # q /\ Pending(r) /\ Pending(q)) => requests[r].id # requests[q].id

\* C29: the keys of USER_RESPONSES are the correlation ids of the calls that
\* are registered and have not returned.
C29_LiveTableIsInFlight ==
    DOMAIN USER_RESPONSES = {requests[r].id : r \in {q \in Req : Pending(q)}}

(***************************************************************************)
(* One caller that waits for each request before it issues the next, as    *)
(* main() does (main.py:59-76), with the event loop resuming the sleeping  *)
(* call and time advancing.                                                *)
(***************************************************************************)
\* main.py:76: the caller has the value the call returned; the clock is
\* counted from here on.
approval_taken ==
    /\ requests[1].pc = "returned"
    /\ requests' = [requests EXCEPT ![1] = IdleRequest]
    /\ recorded' = [recorded EXCEPT ![1] = [first |-> None, last |-> None]]
    /\ now' = 0
    /\ UNCHANGED <<USER_RESPONSES, notice, time_ns, default_chat_id>>
    /\ UNCHANGED dbVars
    /\ UNCHANGED libVars
    /\ UNCHANGED mainVars

WaitCall ==
    /\ send_article_for_approval_async(1, ItemOf(1))
    /\ UNCHANGED dbVars
    /\ UNCHANGED libVars
    /\ UNCHANGED mainVars
WaitTaken == approval_taken

WaitNext ==
    \/ WaitCall
    \/ SendReturns
    \/ SendRaises
    \/ WaitLoop
    \/ ButtonCallback
    \/ Tick
    \/ WaitTaken

\* asyncio resumes a call whose sleep has ended, and time advances.
SpecWait == ChanInit /\ [][WaitNext]_vars /\ WF_vars(WaitLoop) /\ WF_vars(Tick)

\* C22: a call whose prompt has been sent and that waits for its answer
\* returns in the end: with the answer, or with "timeout" once
\* user_interaction_timeout has elapsed.
C22_EventuallyReturns ==
    \A r \in Req : (requests[r].pc = "sleeping") ~> Returned(r)

\* A call has returned "timeout" after user_interaction_timeout seconds in
\* which no payload came for it.
C22_Witness ==
    /\ Returned(1)
    /\ requests[1].result = "timeout"
    /\ recorded[1].first = None
    /\ now >= user_interaction_timeout

(***************************************************************************)
(* The processed store, src/src/database.py.  A row is the url's           *)
(* processed_at (CURRENT_TIMESTAMP at the INSERT) and whether the          *)
(* transaction that inserted it has been committed: sqlite3 opens a        *)
(* transaction at the INSERT, the connection reads its own uncommitted     *)
(* rows, and closing the connection rolls them back.                       *)
(***************************************************************************)
\* Where a call on the connection raises sqlite3.Error, if it does.
Faults == {"none", "execute", "commit"}

Call(op, url, fault, ret) == [op |-> op, url |-> url, fault |-> fault, ret |-> ret]

\* Database._setup_database (database.py:22-41), called by __init__ on a file
\* that keeps the committed rows of earlier connections.
_setup_database(ok) ==
    /\ ~conn
    /\ conn' = ok
    /\ last_call' = Call("_setup_database", None, None, ok)
    /\ UNCHANGED <<processed_articles, orchestrator>>

\* Database.article_is_processed (database.py:43-62).
article_is_processed(url, fault) ==
    /\ last_call' = Call("article_is_processed", url, fault,
                         IF ~conn THEN FALSE
                         ELSE IF fault = "execute" THEN FALSE
                         ELSE url \in DOMAIN processed_articles)
    /\ UNCHANGED <<conn, processed_articles, orchestrator>>

\* The rows after commit().
Commit(rows) == [u \in DOMAIN rows |-> [rows[u] EXCEPT !.committed = TRUE]]

\* add_processed_article with INSERT OR REPLACE in place of INSERT.
add_processed_article_replace(url, fault) ==
    IF ~conn
    THEN /\ last_call' = Call("add_processed_article", url, fault, FALSE)
         /\ UNCHANGED <<conn, processed_articles, orchestrator>>
    ELSE IF fault = "execute"
    THEN /\ last_call' = Call("add_processed_article", url, fault, FALSE)
         /\ UNCHANGED <<conn, processed_articles, orchestrator>>
    ELSE LET inserted == DictSet(processed_articles, url,
                                 [processed_at |-> now, committed |-> FALSE])
         IN /\ processed_articles' = IF fault = "commit" THEN inserted ELSE Commit(inserted)
            /\ last_call' = Call("add_processed_article", url, fault, fault # "commit")
            /\ UNCHANGED <<conn, orchestrator>>

\* Database.add_processed_article (database.py:64-88).  The UNIQUE constraint
\* on url (database.py:33) makes the INSERT of a url the table holds raise
\* IntegrityError.
add_processed_article(url, fault) ==
    IF ~conn
    THEN /\ last_call' = Call("add_processed_article", url, fault, FALSE)
         /\ UNCHANGED <<conn, processed_articles, orchestrator>>
    ELSE IF fault = "execute" \/ url \in DOMAIN processed_articles
    THEN /\ last_call' = Call("add_processed_article", url, fault, FALSE)
         /\ UNCHANGED <<conn, processed_articles, orchestrator>>
    ELSE LET inserted == DictSet(processed_articles, url,
                                 [processed_at |-> now, committed |-> FALSE])
         IN /\ processed_articles' = IF fault = "commit" THEN inserted ELSE Commit(inserted)
            /\ last_call' = Call("add_processed_article", url, fault, fault # "commit")
            /\ UNCHANGED <<conn, orchestrator>>

\* Database.close (database.py:90-97): uncommitted rows are rolled back.
close ==
    /\ conn
    /\ conn' = FALSE
    /\ processed_articles' =
           [u \in {x \in DOMAIN processed_articles : processed_articles[x].committed}
               |-> processed_articles[u]]
    /\ last_call' = Call("close", None, None, None)
    /\ UNCHANGED orchestrator

\* Orchestrator.run (orchestrator.py:17-24): fetch_all_articles is a plain
\* method returning a list (article_fetcher.py:313), so the await of line 24
\* raises TypeError before the store is consulted.
Orchestrator_run ==
    /\ orchestrator = "idle"
    /\ conn
    /\ orchestrator' = "TypeError"
    /\ UNCHANGED <<conn, processed_articles, last_call>>

(***************************************************************************)
(* The processed store on its own: any sequence of calls, the clock moving *)
(* between them.                                                           *)
(***************************************************************************)
DbInit ==
    /\ DbUnused
    /\ MainUnused
    /\ LibUnused
    /\ USER_RESPONSES = << >>
    /\ requests = [r \in Req |-> IdleRequest]
    /\ recorded = [r \in Req |-> [first |-> None, last |-> None]]
    /\ notice = None
    /\ now = 0
    /\ time_ns = 0
    /\ default_chat_id = TRUE

DbSetup == (\E ok \in BOOLEAN : _setup_database(ok)) /\ UNCHANGED chanVars /\ UNCHANGED now /\ UNCHANGED mainVars /\ UNCHANGED libVars
DbHas ==
    /\ \E url \in Urls, fault \in {"none", "execute"} : article_is_processed(url, fault)
    /\ UNCHANGED chanVars /\ UNCHANGED now /\ UNCHANGED mainVars /\ UNCHANGED libVars
DbAdd ==
    /\ \E url \in Urls, fault \in Faults : add_processed_article(url, fault)
    /\ UNCHANGED chanVars /\ UNCHANGED now /\ UNCHANGED mainVars /\ UNCHANGED libVars
DbClose == close /\ UNCHANGED chanVars /\ UNCHANGED now /\ UNCHANGED mainVars /\ UNCHANGED libVars
DbClock ==
    /\ now < MaxTime
    /\ now' = now + 1
    /\ UNCHANGED chanVars
    /\ UNCHANGED dbVars
    /\ UNCHANGED libVars
    /\ UNCHANGED mainVars
OrchestratorRuns == Orchestrator_run /\ UNCHANGED chanVars /\ UNCHANGED now /\ UNCHANGED mainVars /\ UNCHANGED libVars

DbNext ==
    \/ DbSetup
    \/ DbHas
    \/ DbAdd
    \/ DbClose
    \/ DbClock
    \/ OrchestratorRuns

SpecDb == DbInit /\ [][DbNext]_vars

HeldIn(rows, url) == url \in DOMAIN rows
StoredIn(rows, url) == HeldIn(rows, url) /\ rows[url].committed
Held(url) == HeldIn(processed_articles, url)
Stored(url) == StoredIn(processed_articles, url)

\* C2: once an add_processed_article of a url has succeeded, the url's row stays
\* the one that call wrote, whatever is called later; a later add of the url
\* returns False; and article_is_processed of a url the table holds answers
\* True whenever the query runs.
C2_WriteOnceLedger ==
    [][/\ \A url \in Urls :
            Stored(url) => /\ HeldIn(processed_articles', url)
                           /\ processed_articles'[url] = processed_articles[url]
       /\ (last_call'.op = "add_processed_article" /\ last_call'.ret = TRUE)
              => StoredIn(processed_articles', last_call'.url)
       /\ (/\ last_call'.op = "add_processed_article"
           /\ last_call' # last_call
           /\ Held(last_call'.url))
              => last_call'.ret = FALSE
       /\ (/\ last_call'.op = "article_is_processed"
           /\ conn'
           /\ last_call'.fault = "none")
              => last_call'.ret = HeldIn(processed_articles', last_call'.url)]_vars

\* A url was recorded at one time, a second add of it at a later time has just
\* returned False, and the row is still the first one.
C2_Witness ==
    /\ last_call = Call("add_processed_article", "urlA", "none", FALSE)
    /\ conn
    /\ Stored("urlA")
    /\ processed_articles["urlA"].processed_at < now

(***************************************************************************)
(* main() (main.py:27-113), one run after another.                         *)
(***************************************************************************)
\* The order in which fetch_all_articles calls the providers, as positions
\* of main().
FetchPcs == <<"fetch_hackernews", "fetch_reddit_ai", "fetch_techcrunch_ai", "fetch_arxiv">>

\* What one provider's fetch can return: at most MaxFetch articles.
RECURSIVE SeqsUpTo(_)
SeqsUpTo(n) ==
    IF n = 0 THEN {<< >>}
    ELSE SeqsUpTo(n - 1) \cup {Append(q, url) : q \in SeqsUpTo(n - 1), url \in Urls}

ProviderResults == SeqsUpTo(MaxFetch)

Range(q) == {q[i] : i \in 1..Len(q)}

\* The same loop with each url compared with the one added last only.
RECURSIVE add_articles_if_not_last(_, _)
add_articles_if_not_last(st, new_articles) ==
    IF new_articles = << >> THEN st
    ELSE LET url == Head(new_articles)
             all == st.all_articles
             nxt == IF all = << >> \/ all[Len(all)] # url
                    THEN [all_articles |-> Append(all, url),
                          seen_urls |-> st.seen_urls \cup {url}]
                    ELSE st
         IN  add_articles_if_not_last(nxt, Tail(new_articles))

\* article_fetcher.py:319-325, on the closure's state [all_articles, seen_urls].
RECURSIVE add_articles_if_new(_, _)
add_articles_if_new(st, new_articles) ==
    IF new_articles = << >> THEN st
    ELSE LET url == Head(new_articles)
             nxt == IF url \notin st.seen_urls
                    THEN [all_articles |-> Append(st.all_articles, url),
                          seen_urls |-> st.seen_urls \cup {url}]
                    ELSE st
         IN  add_articles_if_new(nxt, Tail(new_articles))

\* The urls of this list that were seen before or come twice in it.
Repeats(seen, new_articles) ==
    {new_articles[i] : i \in {k \in 1..Len(new_articles) :
        \/ new_articles[k] \in seen
        \/ \E j \in 1..(k - 1) : new_articles[j] = new_articles[k]}}

\* The statuses after which the specification says an item is done with.
Terminal == {"posted", "ignored", "failed_publish", "skipped_no_content"}

\* The for loop left after the article in hand, whatever is behind it.
LeaveLoop ==
    /\ idx' = idx + 1
    /\ main_pc' = "cleanup"

\* The for loop of main.py:59 moves to the next article, or ends.
NextArticle ==
    /\ idx' = idx + 1
    /\ main_pc' = IF idx + 1 > Len(articles) THEN "cleanup" ELSE "summarize"

\* main.py:27-48: a new process; the module-level table starts empty.
main_start ==
    /\ main_pc \in {"idle", "done"}
    /\ run < MaxRuns
    /\ run' = run + 1
    /\ main_pc' = FetchPcs[1]
    /\ decided_before' = decided_before \cup
                         {url \in DOMAIN outcome : outcome[url] \in Terminal}
    /\ articles' = << >>
    /\ idx' = 0
    /\ calls' = [url \in Urls |-> NoCalls]
    /\ outcome' = << >>
    /\ held_at_fetch' = {}
    /\ dup_fetched' = {}
    /\ messages' = {}
    /\ USER_RESPONSES' = << >>
    /\ requests' = [r \in Req |-> IdleRequest]
    /\ recorded' = [r \in Req |-> [first |-> None, last |-> None]]
    /\ notice' = None
    /\ now' = 0
    /\ time_ns' = 0
    /\ UNCHANGED default_chat_id
    /\ UNCHANGED dbVars
    /\ UNCHANGED libVars

\* What reading config.enable_<provider> gives.  config.py defines
\* enable_hackernews, enable_techcrunch_ai and enable_arxiv (lines 24, 38, 43)
\* and no enable_reddit_ai: on the Config that load_config returns the read of
\* article_fetcher.py:329 raises AttributeError; a configuration object that
\* carries the attribute (as TestConfig, article_fetcher.py:452-464) gives a
\* boolean.
ConfigEnable(k) ==
    IF FetchPcs[k] = "fetch_reddit_ai" THEN {"True", "False", "AttributeError"}
    ELSE {"True", "False"}

\* article_fetcher.py:327-337 with main.py:51-58: provider k is called if it is
\* enabled and its articles are added; after the last one main() has the list.
\* An exception leaves main() without a list and in its handler.
fetch_all_articles(k, enable, new_articles) ==
    /\ main_pc = FetchPcs[k]
    /\ IF enable = "AttributeError"
       THEN /\ main_pc' = "except"
            /\ articles' = << >>
            /\ UNCHANGED <<idx, held_at_fetch, dup_fetched>>
       ELSE LET st == [all_articles |-> articles, seen_urls |-> Range(articles)]
                all_articles == IF enable = "True"
                                THEN add_articles_if_new(st, new_articles).all_articles
                                ELSE articles
            IN  /\ articles' = all_articles
                /\ dup_fetched' = dup_fetched \cup
                       (IF enable = "True" THEN Repeats(st.seen_urls, new_articles) ELSE {})
                /\ IF k < Len(FetchPcs)
                   THEN /\ main_pc' = FetchPcs[k + 1]
                        /\ UNCHANGED <<idx, held_at_fetch>>
                   ELSE /\ main_pc' = IF all_articles = << >> THEN "cleanup" ELSE "summarize"
                        /\ idx' = 1
                        /\ held_at_fetch' = {url \in Range(all_articles) : Stored(url)}
    /\ UNCHANGED <<run, calls, outcome, decided_before, messages>>
    /\ UNCHANGED chanVars
    /\ UNCHANGED now
    /\ UNCHANGED dbVars
    /\ UNCHANGED retryVars
    /\ UNCHANGED sessionVars

\* main.py:62-72: summary is what llm.summarize_article gave: a text
\* ("summary"), nothing ("none"), or an exception ("raise").
summarize_article(summary) ==
    /\ main_pc = "summarize"
    /\ LET url == articles[idx]
       IN  /\ calls' = [calls EXCEPT ![url].summarize = @ + 1]
           /\ IF summary = "summary"
              THEN /\ main_pc' = "approve"
                   /\ UNCHANGED <<idx, outcome>>
              ELSE /\ outcome' = DictSet(outcome, url, "skipped_no_content")
                   /\ NextArticle
    /\ UNCHANGED <<run, articles, decided_before, held_at_fetch, dup_fetched, messages>>
    /\ UNCHANGED chanVars
    /\ UNCHANGED now
    /\ UNCHANGED dbVars
    /\ UNCHANGED libVars

\* main.py:76 with telegram_bot.py:179-205: main() is not inside a running
\* loop, so the wrapper runs one request to completion (line 205).
send_article_for_approval ==
    /\ main_pc = "approve"
    /\ send_article_for_approval_async(1, articles[idx])
    /\ calls' = [calls EXCEPT ![articles[idx]].approval = @ + 1]
    /\ main_pc' = "waiting"
    /\ UNCHANGED <<run, articles, idx, outcome, decided_before, held_at_fetch, dup_fetched, messages>>
    /\ UNCHANGED dbVars
    /\ UNCHANGED libVars

\* The same branch taken whatever the request returned.
approval_response_unchecked(approval_response) ==
    /\ main_pc' = "post"
    /\ UNCHANGED <<idx, outcome>>

\* main.py:78-97.
approval_response_branch(approval_response) ==
    IF approval_response = "post"
    THEN /\ main_pc' = "post"
         /\ UNCHANGED <<idx, outcome>>
    ELSE /\ outcome' = DictSet(outcome, articles[idx],
                          IF approval_response \in {"ignore", "timeout"}
                          THEN "ignored" ELSE "error")
         /\ NextArticle

\* main.py:76-97: the request has returned; the clock is counted from here on.
approval_returns ==
    /\ main_pc = "waiting"
    /\ requests[1].pc = "returned"
    /\ calls' = [calls EXCEPT ![requests[1].article].response = requests[1].result]
    /\ approval_response_branch(requests[1].result)
    /\ requests' = [requests EXCEPT ![1] = IdleRequest]
    /\ recorded' = [recorded EXCEPT ![1] = [first |-> None, last |-> None]]
    /\ now' = 0
    /\ UNCHANGED <<run, articles, decided_before, held_at_fetch, dup_fetched, messages>>
    /\ UNCHANGED <<USER_RESPONSES, notice, time_ns, default_chat_id>>
    /\ UNCHANGED dbVars
    /\ UNCHANGED libVars

\* notifier.send_message(text) (telegram_bot.py:81-110): the text is handed to
\* bot.send_message if a chat id is configured, and dropped with a log line
\* otherwise.  kind tells the three texts of main() apart, title is the
\* article the text names.
send_message(kind, title) ==
    [kind |-> kind, title |-> title, handed_over |-> default_chat_id]

\* post_article as main() would call it without telling the operator.
post_article_silent(post_success) ==
    /\ main_pc = "post"
    /\ calls' = [calls EXCEPT ![articles[idx]].post = @ + 1]
    /\ outcome' = DictSet(outcome, articles[idx],
                          IF post_success = "True" THEN "posted" ELSE "failed_publish")
    /\ NextArticle
    /\ UNCHANGED <<run, articles, decided_before, held_at_fetch, dup_fetched, messages>>
    /\ UNCHANGED chanVars
    /\ UNCHANGED now
    /\ UNCHANGED dbVars
    /\ UNCHANGED libVars

\* main.py:80-91: post_success is True, False, or post_article raised.
post_article(post_success) ==
    /\ main_pc = "post"
    /\ calls' = [calls EXCEPT ![articles[idx]].post = @ + 1]
    /\ outcome' = DictSet(outcome, articles[idx],
                          IF post_success = "True" THEN "posted" ELSE "failed_publish")
    /\ messages' = CASE post_success = "True" -> messages
                     [] post_success = "False" ->
                            messages \cup {send_message("failed_to_post", articles[idx])}
                     [] OTHER ->
                            messages \cup {send_message("error_during_posting", articles[idx])}
    /\ NextArticle
    /\ UNCHANGED <<run, articles, decided_before, held_at_fetch, dup_fetched>>
    /\ UNCHANGED chanVars
    /\ UNCHANGED now
    /\ UNCHANGED dbVars
    /\ UNCHANGED libVars

\* main.py:101-106: an exception that reached the outer handler.
main_except ==
    /\ main_pc = "except"
    /\ messages' = messages \cup {send_message("critical_error", None)}
    /\ main_pc' = "cleanup"
    /\ UNCHANGED <<run, articles, idx, calls, outcome, decided_before,
                   held_at_fetch, dup_fetched>>
    /\ UNCHANGED chanVars
    /\ UNCHANGED now
    /\ UNCHANGED dbVars
    /\ UNCHANGED libVars

\* main.py:99-113.
main_finally ==
    /\ main_pc = "cleanup"
    /\ main_pc' = "done"
    /\ UNCHANGED <<run, articles, idx, calls, outcome, decided_before,
                   held_at_fetch, dup_fetched, messages>>
    /\ UNCHANGED chanVars
    /\ UNCHANGED now
    /\ UNCHANGED dbVars
    /\ UNCHANGED libVars

\* The polling thread (telegram_bot.py:218-231) lives as long as the process.
Polling == main_pc \notin {"idle", "done"}

\* The file main() runs beside: a Database has been opened on it and has
\* recorded urlB (database.py:64-88); main() itself constructs none.
StoreWritten ==
    /\ conn = TRUE
    /\ processed_articles = [url \in {"urlB"} |-> [processed_at |-> 0, committed |-> TRUE]]
    /\ last_call = [op |-> None, url |-> None, fault |-> None, ret |-> None]
    /\ orchestrator = "idle"

Init ==
    /\ StoreWritten
    /\ MainUnused
    /\ LibUnused
    /\ USER_RESPONSES = << >>
    /\ requests = [r \in Req |-> IdleRequest]
    /\ recorded = [r \in Req |-> [first |-> None, last |-> None]]
    /\ notice = None
    /\ now = 0
    /\ time_ns = 0
    /\ default_chat_id \in BOOLEAN

MainStart == main_start
Fetch ==
    /\ \E k \in 1..Len(FetchPcs), new_articles \in ProviderResults :
         \E enable \in ConfigEnable(k) :
           fetch_all_articles(k, enable, new_articles)
    /\ UNCHANGED fetch_log
Summarize == \E summary \in {"summary", "none", "raise"} : summarize_article(summary)
SendForApproval == send_article_for_approval
MessageSent == main_pc = "waiting" /\ SendReturns
MessageFails == main_pc = "waiting" /\ SendRaises
Waiting == main_pc = "waiting" /\ WaitLoop
ClockTick == main_pc = "waiting" /\ Tick
Pressed == Polling /\ ButtonCallback
ApprovalReturns == approval_returns
Post == \E post_success \in {"True", "False", "raise"} : post_article(post_success)
Except == main_except
Finally == main_finally
Next ==
    \/ MainStart
    \/ Fetch
    \/ Summarize
    \/ SendForApproval
    \/ MessageSent
    \/ MessageFails
    \/ Waiting
    \/ ClockTick
    \/ Pressed
    \/ ApprovalReturns
    \/ Post
    \/ Except
    \/ Finally

Spec == Init /\ [][Next]_vars

\* The store could not be asked or written: there is no connection, or the
\* statement (or the commit) raised sqlite3.Error.
Unreachable == ~conn \/ last_call.fault # "none"

\* C26: article_is_processed does not answer False ("unprocessed") when the
\* store could not be asked.
C26_HasFailsClosed ==
    (last_call.op = "article_is_processed" /\ Unreachable) => last_call.ret # FALSE

\* What add_processed_article returns for a url the table already holds
\* (database.py:83-85).
already_recorded == FALSE

\* C27: an add_processed_article that failed on a storage error does not
\* return what the no-op on an already recorded url returns.
C27_RecordFailureSurfaced ==
    (/\ last_call.op = "add_processed_article"
     /\ Unreachable
     /\ ~Stored(last_call.url)) => last_call.ret # already_recorded

(***************************************************************************)
(* Properties of a run of main().                                          *)
(***************************************************************************)
\* C1: over one run post_article is called at most once for each url, also
\* when the providers returned the url more than once.
C1_AtMostOncePublish == \A url \in Urls : calls[url].post <= 1

\* A run is over in which a url that the providers returned twice was posted.
C1_Witness ==
    /\ main_pc = "done"
    /\ \E url \in dup_fetched : calls[url].post = 1

\* C8: a url that an earlier run disposed of (posted, ignored, failed publish,
\* skipped for no content) is in a later run neither summarized, nor sent for
\* approval, nor posted.
C8_RerunsNeverReprocess ==
    \A url \in decided_before :
        /\ calls[url].summarize = 0
        /\ calls[url].approval = 0
        /\ calls[url].post = 0

\* C9: for a fetched url that the store held at the fetch, the run makes no
\* summarize call, sends no approval request and makes no post call, and the
\* url's row stays as it was.
C9_StoredItemsSkipped ==
    \A url \in held_at_fetch :
        /\ calls[url].summarize = 0
        /\ calls[url].approval = 0
        /\ calls[url].post = 0
        /\ Stored(url)
        /\ processed_articles[url].processed_at = 0

\* C10: post_article is called for a url only after the approval request about
\* that url has returned "post"; after any other return value it is not called.
C10_PublishOnlyAfterApproval ==
    /\ \A url \in Urls : calls[url].post > 0 => calls[url].response = "post"
    /\ main_pc = "post" => calls[articles[idx]].response = "post"

\* A run is over that posted one url after its "post" and did not post another
\* whose request returned something else.
C10_Witness ==
    /\ main_pc = "done"
    /\ \E url, other \in Urls :
           /\ calls[url].post = 1
           /\ calls[url].response = "post"
           /\ calls[other].response \notin {None, "post"}
           /\ calls[other].post = 0

\* C23: the action "edit" never ends an approval request: no request of the
\* run returns it, the request stays pending until the new text and an
\* approve have come.
C23_EditKeepsRequestPending ==
    \A url \in Urls : calls[url].response # "edit"

\* C11: every url whose post_article call has returned (status "posted") or
\* has failed (status "failed_publish") is by then a committed row of the
\* processed store.
C11_PublishOutcomeRecorded ==
    \A url \in DOMAIN outcome :
        outcome[url] \in {"posted", "failed_publish"} => Stored(url)

\* The texts main() sends when post_article returned False or raised.
PublishFailureTexts == {"failed_to_post", "error_during_posting"}

\* C12: for every url whose post_article call returned False or raised, main()
\* has handed a failure text naming that url over to the bot, and the article
\* behind it in the list is processed: the loop has gone past the failed one,
\* and when the run is over the next one has been summarized.
C12_PublishFailureReported ==
    \A i \in 1..Len(articles) :
        (articles[i] \in DOMAIN outcome /\ outcome[articles[i]] = "failed_publish") =>
            /\ \E m \in messages : /\ m.kind \in PublishFailureTexts
                                   /\ m.title = articles[i]
                                   /\ m.handed_over
            /\ idx > i
            /\ (i < Len(articles) /\ main_pc \in {"cleanup", "done"}) =>
                   calls[articles[i + 1]].summarize = 1

\* A run is over whose first article could not be posted and was reported,
\* and whose second article was summarized after that.
C12_Witness ==
    /\ main_pc = "done"
    /\ Len(articles) = 2
    /\ articles[1] \in DOMAIN outcome
    /\ outcome[articles[1]] = "failed_publish"
    /\ \E m \in messages : m.kind = "error_during_posting" /\ m.title = articles[1]
    /\ calls[articles[2]].summarize = 1

\* C13: every url whose approval request returned "ignore" or "timeout"
\* (status "ignored") is a committed row of the processed store, and
\* post_article was not called for it.
C13_IgnoredRecorded ==
    \A url \in DOMAIN outcome :
        outcome[url] = "ignored" => (Stored(url) /\ calls[url].post = 0)

\* C14: every url whose summarize_article call gave no summary (status
\* "skipped_no_content") is a committed row of the processed store, and no
\* approval request was sent for it.
C14_NoContentRecorded ==
    \A url \in DOMAIN outcome :
        outcome[url] = "skipped_no_content" => (Stored(url) /\ calls[url].approval = 0)

\* The outcomes of an article that are failures of one of its steps.
StepFailures == {"skipped_no_content", "error", "failed_publish"}

\* C15: whatever the outcome of an article's steps, the loop goes on to the
\* article behind it: while the loop runs every article before the one in
\* hand has an outcome, and when the loop is over every fetched article has
\* been summarized and has an outcome.
C15_PerItemFaultIsolation ==
    /\ main_pc \in {"summarize", "approve", "waiting", "post"} =>
           /\ idx \in 1..Len(articles)
           /\ \A i \in 1..(idx - 1) : articles[i] \in DOMAIN outcome
    /\ main_pc \in {"cleanup", "done"} =>
           \A i \in 1..Len(articles) :
               /\ articles[i] \in DOMAIN outcome
               /\ calls[articles[i]].summarize = 1

\* A run is over in which a step of the first article failed and the second
\* article was posted.
C15_Witness ==
    /\ main_pc = "done"
    /\ Len(articles) = 2
    /\ articles[1] \in DOMAIN outcome
    /\ outcome[articles[1]] \in StepFailures
    /\ articles[2] \in DOMAIN outcome
    /\ outcome[articles[2]] = "posted"

(***************************************************************************)
(* fetch_all_articles with its providers (article_fetcher.py:42-337).      *)
(***************************************************************************)
\* How a provider's fetch can go once it is enabled: its request and its
\* parsing succeed; its request (for Reddit: the API request and the scrape
\* request that is fallen back on, lines 80, 98-107, 115, 144-146) gives no
\* response after the retries; the parsing of the response raises inside the
\* provider's try block.
ProviderFaults == {"none", "request", "parse"}

Prefixes(q) == {SubSeq(q, 1, n) : n \in 0..Len(q)}

\* What a provider returns when the response holds these items
\* (article_fetcher.py:54-73, 114-138, 144-184, 190-262, 277-310): nothing
\* without a response; otherwise the articles appended before the parsing
\* raised, which is all of them if it did not.
ProviderReturns(fault, items) ==
    CASE fault = "none" -> {items}
      [] fault = "request" -> {<< >>}
      [] fault = "parse" -> Prefixes(items)

\* article_fetcher.py:313-317: a call of fetch_all_articles starts with an
\* empty list and an empty set of seen urls.
fetch_all_articles_called ==
    /\ main_pc \in {"idle", "summarize", "cleanup", "except"}
    /\ run < MaxRuns
    /\ run' = run + 1
    /\ main_pc' = FetchPcs[1]
    /\ articles' = << >>
    /\ fetch_log' = << >>
    /\ dup_fetched' = {}
    /\ UNCHANGED <<idx, calls, outcome, decided_before, held_at_fetch, messages>>
    /\ UNCHANGED chanVars
    /\ UNCHANGED now
    /\ UNCHANGED dbVars
    /\ UNCHANGED retryVars
    /\ UNCHANGED sessionVars

\* article_fetcher.py:327-334: one line of fetch_all_articles, with the call
\* of the provider behind it.
fetch_provider(k, enable, fault, items, returned) ==
    /\ returned \in ProviderReturns(fault, items)
    /\ fetch_all_articles(k, enable, returned)
    /\ fetch_log' = IF enable = "True"
                    THEN Append(fetch_log, [provider |-> FetchPcs[k],
                                            fault |-> fault,
                                            returned |-> returned])
                    ELSE fetch_log

FetchInit ==
    /\ DbUnused
    /\ MainUnused
    /\ LibUnused
    /\ USER_RESPONSES = << >>
    /\ requests = [r \in Req |-> IdleRequest]
    /\ recorded = [r \in Req |-> [first |-> None, last |-> None]]
    /\ notice = None
    /\ now = 0
    /\ time_ns = 0
    /\ default_chat_id = TRUE

FetchCalled == fetch_all_articles_called
FetchProvider ==
    \E k \in 1..Len(FetchPcs), items \in ProviderResults, fault \in ProviderFaults :
      \E enable \in ConfigEnable(k), returned \in Prefixes(items) :
        fetch_provider(k, enable, fault, items, returned)
FetchNext ==
    \/ FetchCalled
    \/ FetchProvider

SpecFetch == FetchInit /\ [][FetchNext]_vars

\* The list without the later occurrences of a url that is in it before.
RECURSIVE FirstOccurrences(_)
FirstOccurrences(q) ==
    IF q = << >> THEN << >>
    ELSE LET front == SubSeq(q, 1, Len(q) - 1)
             last == q[Len(q)]
         IN  IF last \in Range(front) THEN FirstOccurrences(front)
             ELSE Append(FirstOccurrences(front), last)

\* What the providers called so far returned, one list after the other, in
\* the order of the calls.
RECURSIVE Returned_by_providers(_)
Returned_by_providers(log) ==
    IF log = << >> THEN << >>
    ELSE Returned_by_providers(SubSeq(log, 1, Len(log) - 1)) \o log[Len(log)].returned

\* The call of fetch_all_articles has returned its list.
FetchReturned == main_pc \in {"summarize", "cleanup"}

\* C16: the list of fetch_all_articles holds no url twice, and it is what the
\* providers returned, in provider order (Hacker News, Reddit, TechCrunch,
\* ArXiv) and within a provider in the provider's order, with each url's
\* later occurrences dropped.
C16_FirstOccurrenceKept ==
    main_pc # "except" =>
        /\ \A i, j \in 1..Len(articles) : articles[i] = articles[j] => i = j
        /\ articles = FirstOccurrences(Returned_by_providers(fetch_log))

\* A call has returned in which Hacker News gave urlB before urlA and
\* TechCrunch gave urlA before urlB and urlA again.
C16_Witness ==
    /\ FetchReturned
    /\ articles = <<"urlB", "urlA">>
    /\ \E i, j \in 1..Len(fetch_log) :
           /\ fetch_log[i].provider = "fetch_hackernews"
           /\ fetch_log[i].returned = <<"urlB", "urlA">>
           /\ fetch_log[j].provider = "fetch_techcrunch_ai"
           /\ fetch_log[j].returned = <<"urlA", "urlB">>

\* C17: when a provider that was called has failed, fetch_all_articles does
\* not raise, the failed provider has contributed no article, and the list
\* holds every article of the providers that did not fail.
C17_ProviderFaultIsolation ==
    (\E i \in 1..Len(fetch_log) : fetch_log[i].fault # "none") =>
        /\ main_pc # "except"
        /\ \A i \in 1..Len(fetch_log) :
               IF fetch_log[i].fault # "none"
               THEN fetch_log[i].returned = << >>
               ELSE Range(fetch_log[i].returned) \subseteq Range(articles)

(***************************************************************************)
(* The two retry loops: _make_request (article_fetcher.py:27-40) and       *)
(* summarize_article (llm_handler.py:33-116), which fetches the article's  *)
(* text through _make_request before it calls the model.                   *)
(***************************************************************************)
retryFrame ==
    /\ UNCHANGED chanVars
    /\ UNCHANGED now
    /\ UNCHANGED dbVars
    /\ UNCHANGED mainVars
    /\ UNCHANGED <<fetch_log, max_retries>>
    /\ UNCHANGED sessionVars

\* article_fetcher.py:28: for attempt in range(max_retries); line 40 is reached
\* at once if the range is empty.
EnterLoop(call) ==
    IF max_retries > 0
    THEN [call EXCEPT !.pc = "attempt", !.attempt = 0, !.result = None, !.log = << >>]
    ELSE [call EXCEPT !.pc = "returned", !.attempt = 0, !.result = None, !.log = << >>]

\* A loop that sleeps after every failed attempt and goes round again.
AfterFailureAlways(call, event) ==
    [call EXCEPT !.pc = "sleep", !.log = Append(@, event)]

\* article_fetcher.py:33-39 and llm_handler.py:109-114: after a failed
\* attempt, sleep if it was not the last one, else return None.
AfterFailure(call, event) ==
    IF call.attempt < max_retries - 1
    THEN [call EXCEPT !.pc = "sleep", !.log = Append(@, event)]
    ELSE [call EXCEPT !.pc = "returned", !.result = None, !.log = Append(@, event)]

\* time.sleep(retry_delay), then the next round of the loop.
Slept(call) ==
    [call EXCEPT !.pc = "attempt", !.attempt = @ + 1, !.log = Append(@, "sleep")]

\* llm_handler.py:45-47 with article_fetcher.py:346-347: summarize_article of
\* a url starts by requesting the page.
summarize_article_called ==
    /\ llm_call.pc \in {"idle", "returned"}
    /\ llm_call' = [NoSummary EXCEPT !.pc = "content"]
    /\ req_call' = EnterLoop(NoRequest)
    /\ retryFrame

\* article_fetcher.py:29-39: one attempt; ok says whether session.get and
\* raise_for_status went through.
_make_request_attempt(ok) ==
    /\ req_call.pc = "attempt"
    /\ req_call' = IF ok
                   THEN [req_call EXCEPT !.pc = "returned", !.result = "response",
                                         !.log = Append(@, "ok")]
                   ELSE AfterFailure(req_call, "fail")
    /\ UNCHANGED llm_call
    /\ retryFrame

\* article_fetcher.py:35.
_make_request_sleep ==
    /\ req_call.pc = "sleep"
    /\ req_call' = Slept(req_call)
    /\ UNCHANGED llm_call
    /\ retryFrame

\* article_fetcher.py:348-441 with llm_handler.py:24-31, 48-69: without a
\* response or without text extracted from it summarize_article returns
\* None; with text it builds the prompt and enters its loop.
get_article_content(extracted) ==
    /\ llm_call.pc = "content"
    /\ req_call.pc = "returned"
    /\ llm_call' = IF req_call.result = None \/ ~extracted
                   THEN [llm_call EXCEPT !.pc = "returned", !.result = None]
                   ELSE EnterLoop(llm_call)
    /\ UNCHANGED req_call
    /\ retryFrame

\* The texts a response can carry, and str.strip on them.
Texts == {"summary", " summary ", " "}
strip(text) ==
    CASE text = " summary " -> "summary"
      [] text = " " -> ""
      [] OTHER -> text

\* What one call of model.generate_content can come to (llm_handler.py:82-107):
\*   "text"        parts with text;
\*   "no_text"     parts whose joined text is empty, no block reason;
\*   "empty"       no parts, no block reason;
\*   "blocked"     a block reason in prompt_feedback and no candidate;
\*   "error"       an exception that names neither API_KEY_INVALID nor permission;
\*   "auth_error"  an exception that names one of them.
Responses == {"text", "no_text", "empty", "blocked", "error", "auth_error"}

\* What reading response.parts (llm_handler.py:84) of a response without
\* candidates does: the accessor of the google.generativeai package in use
\* gives an empty list, or raises ValueError.
PartsOfBlocked == {"parts_empty", "parts_raise"}

\* The attempts after which the loop goes round again.
Transient == {"no_text", "empty", "error", "blocked_parts_raise"}

\* llm_handler.py:82-114 with the delay left out: after a failed attempt the
\* next call follows at once.
generate_content_at_once(response, text, parts) ==
    /\ llm_call.pc = "attempt"
    /\ llm_call' =
         CASE response = "text" ->
                  [llm_call EXCEPT !.pc = "returned", !.result = strip(text),
                                   !.text = text, !.log = Append(@, "text")]
           [] response = "blocked" /\ parts = "parts_empty" ->
                  [llm_call EXCEPT !.pc = "returned", !.result = None,
                                   !.log = Append(@, "blocked")]
           [] response = "auth_error" ->
                  [llm_call EXCEPT !.pc = "returned", !.result = None,
                                   !.log = Append(@, "auth_error")]
           [] OTHER ->
                  LET event == IF response = "blocked" THEN "blocked_parts_raise" ELSE response
                  IN  IF llm_call.attempt < max_retries - 1
                      THEN [llm_call EXCEPT !.attempt = @ + 1, !.log = Append(@, event)]
                      ELSE [llm_call EXCEPT !.pc = "returned", !.result = None,
                                            !.log = Append(@, event)]
    /\ UNCHANGED req_call
    /\ retryFrame

\* llm_handler.py:82-114: one round of the loop of summarize_article.
generate_content(response, text, parts) ==
    /\ llm_call.pc = "attempt"
    /\ llm_call' =
         CASE response = "text" ->
                  [llm_call EXCEPT !.pc = "returned", !.result = strip(text),
                                   !.text = text, !.log = Append(@, "text")]
           [] response = "blocked" /\ parts = "parts_empty" ->
                  [llm_call EXCEPT !.pc = "returned", !.result = None,
                                   !.log = Append(@, "blocked")]
           [] response = "auth_error" ->
                  [llm_call EXCEPT !.pc = "returned", !.result = None,
                                   !.log = Append(@, "auth_error")]
           [] OTHER ->
                  AfterFailure(llm_call,
                               IF response = "blocked" THEN "blocked_parts_raise" ELSE response)
    /\ UNCHANGED req_call
    /\ retryFrame

\* llm_handler.py:111.
summarize_article_sleep ==
    /\ llm_call.pc = "sleep"
    /\ llm_call' = Slept(llm_call)
    /\ UNCHANGED req_call
    /\ retryFrame

\* config.max_retries is read from the environment (config.py:61).
RetryInit ==
    /\ DbUnused
    /\ MainUnused
    /\ USER_RESPONSES = << >>
    /\ requests = [r \in Req |-> IdleRequest]
    /\ recorded = [r \in Req |-> [first |-> None, last |-> None]]
    /\ notice = None
    /\ now = 0
    /\ time_ns = 0
    /\ default_chat_id = TRUE
    /\ fetch_log = << >>
    /\ max_retries \in 0..MaxRetries
    /\ req_call = NoRequest
    /\ llm_call = NoSummary
    /\ driver = FALSE
    /\ poster_log = << >>
    /\ updater_running = FALSE

SummarizeCalled == summarize_article_called
MakeRequestAttempt == \E ok \in BOOLEAN : _make_request_attempt(ok)
MakeRequestSleep == _make_request_sleep
GetArticleContent == \E extracted \in BOOLEAN : get_article_content(extracted)
GenerateContent ==
    \E response \in Responses, text \in Texts, parts \in PartsOfBlocked :
        generate_content(response, text, parts)
SummarizeSleep == summarize_article_sleep
RetryNext ==
    \/ SummarizeCalled
    \/ MakeRequestAttempt
    \/ MakeRequestSleep
    \/ GetArticleContent
    \/ GenerateContent
    \/ SummarizeSleep

SpecRetry == RetryInit /\ [][RetryNext]_vars

\* The positions of a log that are attempts, and the last event of a log.
AttemptsOf(log) == {i \in 1..Len(log) : log[i] # "sleep"}
LastOf(log) == IF log = << >> THEN None ELSE log[Len(log)]

\* C18: _make_request makes at most max_retries attempts and its number of
\* steps is bounded by them; a successful attempt is the last event and its
\* response is what is returned; a sleep comes only after a failed attempt
\* that is not the last one allowed, and an attempt follows it; None is
\* returned exactly when no attempt succeeded, which is after max_retries
\* failed attempts (none if max_retries is 0).
C18_MakeRequestBounded ==
    LET log == req_call.log
    IN  /\ Cardinality(AttemptsOf(log)) <= max_retries
        /\ Len(log) <= 2 * max_retries
        /\ \A i \in 1..Len(log) :
               /\ log[i] = "ok" => (i = Len(log) /\ req_call.pc = "returned"
                                                /\ req_call.result = "response")
               /\ log[i] = "sleep" =>
                      /\ i > 1
                      /\ log[i - 1] = "fail"
                      /\ Cardinality(AttemptsOf(SubSeq(log, 1, i))) < max_retries
                      /\ (req_call.pc = "returned" => i < Len(log))
        /\ (req_call.pc = "returned" /\ LastOf(log) # "ok") =>
               /\ req_call.result = None
               /\ Cardinality(AttemptsOf(log)) = max_retries
        /\ req_call.pc = "sleep" => LastOf(log) = "fail"

\* A request has returned the response of its third attempt, after two
\* failed attempts each followed by a sleep.
C18_Witness ==
    /\ req_call.pc = "returned"
    /\ req_call.result = "response"
    /\ req_call.log = <<"fail", "sleep", "fail", "sleep", "ok">>

\* The events of a response that carries a block reason.
BlockedEvents == {"blocked", "blocked_parts_raise"}

\* C19: a response that carries a block reason is the last event of the call:
\* summarize_article has returned None, without a sleep or a further call.
C19_NoRetryAfterBlock ==
    \A i \in 1..Len(llm_call.log) :
        llm_call.log[i] \in BlockedEvents =>
            /\ i = Len(llm_call.log)
            /\ llm_call.pc = "returned"
            /\ llm_call.result = None

sessionFrame ==
    /\ UNCHANGED chanVars
    /\ UNCHANGED now
    /\ UNCHANGED dbVars
    /\ UNCHANGED <<fetch_log, max_retries, req_call, llm_call>>

\* The lists fetch_all_articles can return: no url twice.
FetchedLists == {q \in ProviderResults : \A i, j \in 1..Len(q) : q[i] = q[j] => i = j}

\* main.py:41-58: the components are constructed (LinkedInPoster.__init__,
\* linkedin_poster.py:20-82, leaves driver None when the credentials are
\* missing or the webdriver cannot be started), the polling thread is
\* started (telegram_bot.py:208-232), and the articles are fetched, unless
\* fetch_all_articles raises.
main_components(webdriver_ok, polling_ok, fetched, fetch_raises) ==
    /\ main_pc \in {"idle", "done"}
    /\ run < MaxRuns
    /\ run' = run + 1
    /\ driver' = webdriver_ok
    /\ updater_running' = polling_ok
    /\ poster_log' = << >>
    /\ messages' = {}
    /\ IF fetch_raises
       THEN /\ articles' = << >>
            /\ idx' = 0
            /\ main_pc' = "except"
       ELSE /\ articles' = fetched
            /\ idx' = 1
            /\ main_pc' = IF fetched = << >> THEN "cleanup" ELSE "loop"
    /\ UNCHANGED <<calls, outcome, decided_before, held_at_fetch, dup_fetched>>
    /\ sessionFrame

\* LinkedInPoster._login (linkedin_poster.py:85-135): what it returns; every
\* call of it drives the browser to the login page.
_login(login) == IF login THEN "login_ok" ELSE "login_failed"

\* LinkedInPoster.post_article (linkedin_poster.py:137-282): what one call
\* does, as <<login attempt, posting steps taken, value returned>>.  main()
\* calls it with a summary and a url (main.py:64-67), so the test of line
\* 141 passes.
LinkedInPoster_post_article(login, posting) ==
    IF ~driver
    THEN [login |-> "none", posting |-> FALSE, ret |-> FALSE]
    ELSE IF _login(login) = "login_failed"
    THEN [login |-> "login_failed", posting |-> FALSE, ret |-> FALSE]
    ELSE [login |-> "login_ok", posting |-> TRUE, ret |-> posting]

\* main.py:59-97 for the article in hand: it is posted if it was approved;
\* raises says that an exception left the loop body.
main_item(approved, login, posting, raises) ==
    /\ main_pc = "loop"
    /\ poster_log' = IF approved
                     THEN Append(poster_log, LinkedInPoster_post_article(login, posting))
                     ELSE poster_log
    /\ IF raises
       THEN /\ main_pc' = "except"
            /\ UNCHANGED idx
       ELSE /\ idx' = idx + 1
            /\ main_pc' = IF idx + 1 > Len(articles) THEN "cleanup" ELSE "loop"
    /\ UNCHANGED <<driver, updater_running>>
    /\ UNCHANGED <<run, articles, calls, outcome, decided_before, held_at_fetch,
                   dup_fetched, messages>>
    /\ sessionFrame

\* LinkedInPoster.close (linkedin_poster.py:284-292).
LinkedInPoster_close == FALSE

\* notifier.stop_polling() (main.py:112): stop_polling is a coroutine function
\* (telegram_bot.py:235), the call makes a coroutine object that is never
\* awaited, so no line of its body runs.
stop_polling_not_awaited == updater_running

\* main.py:107-113.
main_cleanup ==
    /\ main_pc = "cleanup"
    /\ driver' = LinkedInPoster_close
    /\ updater_running' = stop_polling_not_awaited
    /\ main_pc' = "done"
    /\ UNCHANGED poster_log
    /\ UNCHANGED <<run, articles, idx, calls, outcome, decided_before, held_at_fetch,
                   dup_fetched, messages>>
    /\ sessionFrame

SessionInit ==
    /\ DbUnused
    /\ MainUnused
    /\ LibUnused
    /\ USER_RESPONSES = << >>
    /\ requests = [r \in Req |-> IdleRequest]
    /\ recorded = [r \in Req |-> [first |-> None, last |-> None]]
    /\ notice = None
    /\ now = 0
    /\ time_ns = 0
    /\ default_chat_id = TRUE

SessionStart ==
    \E webdriver_ok, polling_ok, fetch_raises \in BOOLEAN, fetched \in FetchedLists :
        main_components(webdriver_ok, polling_ok, fetched, fetch_raises)
SessionItem ==
    \E approved, login, posting, raises \in BOOLEAN :
        main_item(approved, login, posting, raises)
SessionExcept == main_except
SessionCleanup == main_cleanup
SessionNext ==
    \/ SessionStart
    \/ SessionItem
    \/ SessionExcept
    \/ SessionCleanup

SpecSession == SessionInit /\ [][SessionNext]_vars

\* C24: only the first post_article of a run attempts a login, and after a
\* failed login every later post_article of the run attempts no login, takes
\* no posting step and returns False.
C24_LoginOnceThenDisabled ==
    \A i, j \in 1..Len(poster_log) :
        i < j =>
            /\ poster_log[j].login = "none"
            /\ poster_log[i].login = "login_failed" =>
                   (~poster_log[j].posting /\ ~poster_log[j].ret)

\* C25: when main() has returned, the polling is stopped and the browser
\* session is closed.
C25_CleanupOnEveryExit ==
    main_pc = "done" => (~updater_running /\ ~driver)

(***************************************************************************)
(* The synchronous wrapper TelegramNotifier.send_article_for_approval      *)
(* (telegram_bot.py:179-205) called once for urlA, from a caller with or   *)
(* without a running event loop.                                           *)
(***************************************************************************)
wrapperFrame ==
    /\ UNCHANGED <<run, articles, idx, outcome, decided_before, held_at_fetch,
                   dup_fetched, messages>>
    /\ UNCHANGED dbVars
    /\ UNCHANGED libVars

\* Lines 186-197 and 202-205.  Without a running loop a new loop runs the one
\* coroutine (line 205).  With a running loop line 197 makes a task of a
\* first coroutine, whose stretch up to its first await is taken here, and
\* the wrapper goes on to line 201.
send_article_for_approval_wrapper(loop_running) ==
    /\ main_pc = "idle"
    /\ send_article_for_approval_async(1, "urlA")
    /\ main_pc' = IF loop_running THEN "run_until_complete" ELSE "waiting"
    /\ calls' = [calls EXCEPT !["urlA"].approval = @ + 1]
    /\ wrapperFrame

\* Line 201: run_until_complete of a second coroutine on the loop that is
\* running.  asyncio raises RuntimeError ("This event loop is already
\* running"); a loop patched to be re-entrant (nest_asyncio, line 200) runs
\* the second coroutine.
run_until_complete(nested) ==
    /\ main_pc = "run_until_complete"
    /\ IF nested
       THEN /\ send_article_for_approval_async(2, "urlA")
            /\ main_pc' = "waiting_second"
            /\ calls' = [calls EXCEPT !["urlA"].approval = @ + 1]
       ELSE /\ main_pc' = "RuntimeError"
            /\ UNCHANGED chanVars
            /\ UNCHANGED calls
    /\ wrapperFrame

\* Lines 201 and 205: the wrapper returns what the coroutine it ran returned.
wrapper_returns(r) ==
    /\ \/ r = 1 /\ main_pc = "waiting"
       \/ r = 2 /\ main_pc = "waiting_second"
    /\ requests[r].pc = "returned"
    /\ calls' = [calls EXCEPT !["urlA"].response = requests[r].result]
    /\ main_pc' = "done"
    /\ UNCHANGED chanVars
    /\ wrapperFrame

WrapperCalled ==
    /\ \E loop_running \in BOOLEAN : send_article_for_approval_wrapper(loop_running)
    /\ UNCHANGED now
WrapperRunUntilComplete ==
    /\ \E nested \in BOOLEAN : run_until_complete(nested)
    /\ UNCHANGED now
WrapperReturns ==
    /\ \E r \in Req : wrapper_returns(r)
    /\ UNCHANGED now

WrapperNext ==
    \/ WrapperCalled
    \/ WrapperRunUntilComplete
    \/ WrapperReturns
    \/ SendReturns
    \/ SendRaises
    \/ WaitLoop
    \/ ButtonCallback
    \/ Tick
    \/ NsAdvance

SpecWrapper == ChanInit /\ [][WrapperNext]_vars

\* The calls of send_article_for_approval_async the wrapper has started.
Started == {r \in Req : requests[r].pc # "idle"}

\* C30: a call of the wrapper registers one waiter and sends one prompt, and
\* does not raise; what it returns is what that one request returned.
C30_OneWaiterOnePrompt ==
    /\ main_pc # "RuntimeError"
    /\ main_pc # "idle" => Cardinality(Started) = 1
    /\ calls["urlA"].approval <= 1
    /\ main_pc = "done" => \E r \in Started : calls["urlA"].response = requests[r].result

=============================================================================
